---- MODULE Spec2Model ----
(***************************************************************************)
(* Model of the RS-485 driver stack of basilevs/rs485:                     *)
(*   line.py  - tryUntilTimeout (deadline retry), Line.readline (buffered  *)
(*              transport), the lock shared by the protocol clients        *)
(*   adam.py  - AdamModule.query / AdamModule.write (ASCII protocol)       *)
(*   piv.py   - Piv.send / Piv.receive / Piv.query (byte-stuffed protocol) *)
(*                                                                         *)
(* Bytes are integers 0..255, byte strings are sequences of them.          *)
(* A Python exception is a record [kind |-> <exception class>, ...].       *)
(***************************************************************************)
EXTENDS Integers, Sequences, FiniteSets, TLC

(***************************************************************************)
(* Bounds of the model                                                     *)
(***************************************************************************)
MaxPayload == 2
MaxReply == 4
MaxTime == 3
MaxTimeout == 2
MaxCalls == 3
MaxStream == 4
MaxReads == 3
MaxExchanges == 2
MaxFrame == 4

VARIABLES
    pivAddress,     \* Piv.send / Piv.receive: the address argument
    pivData,        \* Piv.send: the data argument (payload)
    pivFrame,       \* Piv.receive: the frame readline returned
    pivWritten,     \* the bytes Piv.send gave to Line.write
    pivResult,      \* what Piv.receive returned or raised
    pivPc,          \* position of the send/receive round trip
    adamAddress,    \* AdamModule.__addressNum__
    adamArg,        \* the command of query / the data of write
    adamLine,       \* the frame readline returned to query / write
    adamResult,     \* what query / write returned or raised
    adamPc,         \* which of query / write has run
    now,            \* datetime.now(), in clock ticks
    pc,             \* per thread: position in the call it is running
    until,          \* per thread: tryUntilTimeout's local until
    timeout,        \* per thread: tryUntilTimeout's local timeout
    rv,             \* per thread: tryUntilTimeout's local rv
    passed,         \* per thread: the timeout values the action was invoked with
    buffer,         \* Line.__buffer__
    wire,           \* bytes the serial port / socket holds for the next raw read
    delim,          \* per thread: the delimiter argument of readline
    stream,         \* history: every byte that arrived at the port, in order
    frames,         \* history: what each finished readline returned or raised
    bufAtCall,      \* history: the buffer when the running readline was called
    rcvAtCall,      \* history: how many bytes had been read from the port by then
    lock,           \* Line.lock: 0 when unlocked, else the thread whose acquire() returned
    op,             \* per thread: the client call it is running
    arg,            \* per thread: the command / data / request of that call
    done,           \* per thread: how many client calls it has finished
    result,         \* per thread: what its last client call returned or raised
    bus,            \* request frames written to the line that the device has not answered
    debugLock,      \* per DebugLine object: DebugLine.lock, 0 or the holder
    via,            \* per thread: the DebugLine its client was built on, 0 for the Line
    exc             \* per thread: the exception that left readWithTimeout

pivVars == <<pivAddress, pivData, pivFrame, pivWritten, pivResult, pivPc>>
adamVars == <<adamAddress, adamArg, adamLine, adamResult, adamPc>>
retryVars == <<now, pc, until, timeout, rv, passed>>
lineVars == <<buffer, wire, delim>>
histVars == <<stream, frames, bufAtCall, rcvAtCall>>
pureVars == <<pivVars, adamVars>>
lockVars == <<lock, op, arg, done, result, bus>>
transVars == <<debugLock, via, exc>>
threadVars == <<retryVars, lineVars, histVars, lockVars, transVars>>
vars == <<pureVars, threadVars>>

(***************************************************************************)
(* Byte values used by the two protocols                                   *)
(***************************************************************************)
CR == 13
Bang == 33
Hash == 35
Dollar == 36
Gt == 62
Quest == 63
Digit0 == 48
LetterA == 65

cstart == 170
cstop == 171
cshift == 172
escapedSymbols == {cstart, cstop, cshift}
eol == <<cstop>>

\* Python's None where a byte string is expected: a sequence that is no byte string
None == <<-1>>

(***************************************************************************)
(* Python helpers: bytes.find, slices, truthiness                          *)
(***************************************************************************)
RECURSIVE FindFrom(_, _, _)
FindFrom(buf, delimiter, i) ==
    IF i + Len(delimiter) > Len(buf) THEN -1
    ELSE IF SubSeq(buf, i + 1, i + Len(delimiter)) = delimiter THEN i
    ELSE FindFrom(buf, delimiter, i + 1)

\* bytearray.find(delimiter): 0-based index of the first occurrence, or -1
Find(buf, delimiter) ==
    CHOOSE r \in {FindFrom(p[1], p[2], 0) : p \in {<<buf, delimiter>>}} : TRUE

\* s[a:b] for 0 <= a, b (b is clipped to len(s))
Slice(s, a, b) ==
    LET hi == IF b > Len(s) THEN Len(s) ELSE b
    IN  IF a >= hi THEN <<>> ELSE SubSeq(s, a + 1, hi)

\* s[a:]
SliceFrom(s, a) == Slice(s, a, Len(s))

\* truth value of a result: None and the empty bytearray are false
Truthy(v) == v # None /\ v # <<>>

(***************************************************************************)
(* piv.py: calcControl                                                     *)
(***************************************************************************)
RECURSIVE XorBits(_, _)
XorBits(a, b) ==
    IF a = 0 THEN b
    ELSE IF b = 0 THEN a
    ELSE (((a % 2) + (b % 2)) % 2) + 2 * XorBits(a \div 2, b \div 2)

\* a ^ b, with each operand evaluated once
BitXor(a, b) == CHOOSE r \in {XorBits(p[1], p[2]) : p \in {<<a, b>>}} : TRUE

RECURSIVE calcControlFrom(_, _, _)
calcControlFrom(data, i, acc) ==
    IF i > Len(data) THEN acc
    ELSE calcControlFrom(data, i + 1, BitXor(acc, data[i]))

calcControl(data) == calcControlFrom(data, 1, 0)

(***************************************************************************)
(* line.py: Line.readline, the nested processBuf and tryReadLine           *)
(***************************************************************************)
\* processBuf(): cut the bytes before the first delimiter off the buffer
processBuf(buf, delimiter) ==
    LET eolPosition == Find(buf, delimiter)
    IN  IF eolPosition >= 0
        THEN [line |-> Slice(buf, 0, eolPosition),
              buffer |-> SliceFrom(buf, eolPosition + Len(delimiter))]
        ELSE [line |-> None, buffer |-> buf]

\* tryReadLine(timeout): chunk is what readWithTimeout would append; it is
\* consumed (recv = TRUE) only when the first processBuf() gave a false value
tryReadLine(buf, chunk, delimiter) ==
    LET first == processBuf(buf, delimiter)
        second == processBuf(first.buffer \o chunk, delimiter)
    IN  IF Truthy(first.line)
        THEN [line |-> first.line, buffer |-> first.buffer, recv |-> FALSE]
        ELSE [line |-> second.line, buffer |-> second.buffer, recv |-> TRUE]

(***************************************************************************)
(* piv.py: Piv.send, Piv.receive                                           *)
(***************************************************************************)
\* a loop that appends every byte of body as it is
EscapeNothing(body, i) == SubSeq(body, i, Len(body))

RECURSIVE Escape(_, _)
\* the loop of Piv.send over body, from index i on
Escape(body, i) ==
    IF i > Len(body) THEN <<>>
    ELSE IF body[i] \in escapedSymbols
         THEN <<cshift, body[i] - cstart>> \o Escape(body, i + 1)
         ELSE <<body[i]>> \o Escape(body, i + 1)

\* a body that is sent without its control byte
PivBodyNoControl(address, data) == <<address>> \o data

\* the body Piv.send builds before escaping: address, data, control byte
\* (lines 42-49)
PivBody(address, data) ==
    LET body == <<address>> \o data
        control == calcControl(body)
    IN  Append(body, control)

\* the bytes Piv.send(address, data) hands to Line.write
PivSend(address, data) ==
    <<cstart>> \o Escape(PivBody(address, data), 1) \o <<cstop>>

BadPivPacket(msg) == [kind |-> "BadPivPacket", msg |-> msg]

\* a test of the shifted byte that lets every sum through
InvalidShiftNoRange(b) == b \in escapedSymbols

\* if b + Piv.cstart > 255 or b in Piv.escapedSymbols     (line 76)
InvalidShift(b) == b + cstart > 255 \/ b \in escapedSymbols

RECURSIVE Unescape(_, _, _, _)
\* the loop of Piv.receive over data, from index i on
Unescape(data, i, converted, shifted) ==
    IF i > Len(data) THEN [kind |-> "converted", val |-> converted]
    ELSE LET b == data[i]
         IN  IF b = cshift
             THEN IF shifted THEN BadPivPacket("Invalid shift")
                  ELSE Unescape(data, i + 1, converted, TRUE)
             ELSE IF shifted
                  THEN IF InvalidShift(b)
                       THEN BadPivPacket("Invalid shift")
                       ELSE Unescape(data, i + 1, Append(converted, b + cstart), FALSE)
                  ELSE Unescape(data, i + 1, Append(converted, b), FALSE)

\* Piv.receive(address) once readline has returned the frame data
PivReceive(address, data) ==
    IF Len(data) < 2 THEN BadPivPacket("Piv packet is too short")
    ELSE LET u == Unescape(data, 1, <<>>, FALSE)
         IN  IF u.kind # "converted" THEN u
             ELSE LET converted == u.val
                      body == Slice(converted, 0, Len(converted) - 1)
                      control == calcControl(body)
                  IN  IF converted = <<>> THEN [kind |-> "IndexError"]
                      ELSE IF control # converted[Len(converted)]
                           THEN BadPivPacket("Bad control sum")
                      ELSE IF body = <<>> THEN [kind |-> "IndexError"]
                      ELSE IF body[1] # address
                           THEN BadPivPacket("Invalid address")
                      ELSE [kind |-> "return", value |-> SliceFrom(body, 1)]

(***************************************************************************)
(* adam.py: toString, BadReply, AdamModule.query, AdamModule.write         *)
(***************************************************************************)
\* bytes.decode("utf-8") succeeds on these byte strings.  Of the bytes above
\* 127 the model only uses 255, which occurs in no UTF-8 sequence; an ASCII
\* byte decodes to the character of the same code.
Utf8Valid(s) == \A i \in 1..Len(s) : s[i] < 128

\* toString(input) for bytes / bytearray input: "" on UnicodeDecodeError
toString(input) == IF Utf8Valid(input) THEN input ELSE <<>>

HexDigit(d) == IF d < 10 THEN Digit0 + d ELSE LetterA + (d - 10)

\* "%02X" % address, for 0 <= address < 256
Hex2(address) == <<HexDigit(address \div 16), HexDigit(address % 16)>>

\* AdamModule.__address__ is bytes("%02X" % address, "utf-8")
AddressType == "bytes"

\* str + x evaluates only when x is a str, else it raises TypeError
StrConcatOk(operandType) == operandType = "str"

BadReply(request, reply, expected) ==
    [kind |-> "BadReply", request |-> toString(request),
     reply |-> toString(reply), expected |-> expected]

\* the code of AdamModule.query after the lock is released; line is the frame
AdamQuery(addressNum, command, line) ==
    LET address == Hex2(addressNum)
        request == <<Dollar>> \o address \o command
    IN  IF Len(line) < 3
        THEN BadReply(request, line, " reply is too short")
        ELSE IF Slice(line, 0, 1) # <<Bang>>
        THEN BadReply(request, line, " reply should start with !")
        ELSE IF Slice(line, 1, 3) # address
        THEN IF StrConcatOk(AddressType)
             THEN BadReply(request, line, " reply should begin with address of module: ")
             ELSE [kind |-> "TypeError"]
        ELSE IF Utf8Valid(SliceFrom(line, 3))
        THEN [kind |-> "return", value |-> SliceFrom(line, 3)]
        ELSE [kind |-> "UnicodeDecodeError"]

\* the code of AdamModule.write after the lock is released; line is the frame
AdamWrite(addressNum, data, line) ==
    LET address == Hex2(addressNum)
        request == <<Hash>> \o address \o data
        unknown == BadReply(request, line, " unknown reply type")
    IN  IF line = <<Gt>> THEN [kind |-> "return", value |-> None]
        ELSE IF Slice(line, 0, 1) = <<Bang>>
        THEN IF Slice(line, 1, 3) # address
             THEN BadReply(request, line, " wrong address in reply")
             ELSE IF Len(line) = 3 THEN [kind |-> "return", value |-> None]
             ELSE IF SliceFrom(line, 3) # data
             THEN BadReply(request, line, " wrong data in reply")
             ELSE unknown
        ELSE IF Slice(line, 0, 1) = <<Quest>>
        THEN BadReply(request, line, " malformed write request")
        ELSE unknown

(***************************************************************************)
(* Input domains                                                           *)
(***************************************************************************)
RECURSIVE SeqsUpTo(_, _)
\* all sequences over S of length 0..n
SeqsUpTo(S, n) ==
    IF n = 0 THEN {<<>>}
    ELSE LET shorter == SeqsUpTo(S, n - 1)
         IN  shorter \cup {Append(s, x) : s \in {q \in shorter : Len(q) = n - 1}, x \in S}

\* bytes of a Piv address or payload: ordinary bytes, the three reserved
\* bytes and their neighbours, the escape offsets 0, 1, 2, and 255
PivBytes == {0, 1, 2, 3, 85, 169, cstart, cstop, cshift, 173, 255}

\* bytes of an ASCII reply frame: the reply kinds, address digits, a data
\* letter and a byte that is not valid UTF-8.  readline returns no empty
\* frame and no frame holding the delimiter.
AdamBytes == {Bang, Gt, Quest, Digit0, Digit0 + 1, LetterA, 255}
AdamAddresses == {1, 16}
AdamArgs == {<<>>, <<LetterA>>, <<Digit0 + 1, LetterA>>}

NoResult == [kind |-> "none"]

PivOff ==
    /\ pivAddress = 0 /\ pivData = <<>> /\ pivFrame = <<>> /\ pivWritten = <<>>
    /\ pivResult = NoResult /\ pivPc = "off"

AdamOff ==
    /\ adamAddress = 0 /\ adamArg = <<>> /\ adamLine = <<>>
    /\ adamResult = NoResult /\ adamPc = "off"

\* the threads of the model; the single-threaded specifications run Main
Threads == {1, 2}
Main == 1

RetryOff ==
    /\ now = 0
    /\ pc = [t \in Threads |-> "idle"]
    /\ until = [t \in Threads |-> 0]
    /\ timeout = [t \in Threads |-> 0]
    /\ rv = [t \in Threads |-> None]
    /\ passed = [t \in Threads |-> <<>>]

LineOff ==
    /\ buffer = <<>> /\ wire = <<>>
    /\ delim = [t \in Threads |-> <<CR>>]

HistOff ==
    /\ stream = <<>> /\ frames = <<>> /\ bufAtCall = <<>> /\ rcvAtCall = 0

NoCall == [op |-> "none", arg |-> <<>>, outcome |-> NoResult]

\* no exception has left readWithTimeout
NoExc == [raised |-> NoResult, cause |-> NoResult]

\* the DebugLine objects built around the one Line
Wrappers == {1, 2}

TransOff ==
    /\ debugLock = [w \in Wrappers |-> 0]
    /\ via = [t \in Threads |-> 0]
    /\ exc = [t \in Threads |-> NoExc]

LockOff ==
    /\ lock = 0
    /\ op = [t \in Threads |-> "none"]
    /\ arg = [t \in Threads |-> <<>>]
    /\ done = [t \in Threads |-> 0]
    /\ result = [t \in Threads |-> NoCall]
    /\ bus = <<>>

(***************************************************************************)
(* SpecPiv: Piv.send followed by Piv.receive on the bytes it wrote         *)
(***************************************************************************)
InitPiv ==
    /\ pivAddress \in PivBytes
    /\ pivData \in SeqsUpTo(PivBytes, MaxPayload)
    /\ pivFrame = <<>>
    /\ pivWritten = <<>>
    /\ pivResult = NoResult
    /\ pivPc = "start"
    /\ AdamOff
    /\ RetryOff /\ LineOff /\ HistOff /\ LockOff /\ TransOff

\* Piv.send(address, data): the line receives the frame
PivSendStep ==
    /\ pivPc = "start"
    /\ pivWritten' = PivSend(pivAddress, pivData)
    /\ pivPc' = "sent"
    /\ UNCHANGED <<pivAddress, pivData, pivFrame, pivResult, adamVars, threadVars>>

\* Piv.receive(address) with the written bytes as the incoming stream:
\* readline(timeout, eol) finds the frame in one tryReadLine, or times out
PivLoopback ==
    /\ pivPc = "sent"
    /\ LET r == tryReadLine(<<>>, pivWritten, eol)
       IN  /\ pivFrame' = IF Truthy(r.line) THEN r.line ELSE <<>>
           /\ pivResult' = IF Truthy(r.line) THEN PivReceive(pivAddress, r.line)
                            ELSE [kind |-> "Timeout"]
    /\ pivPc' = "received"
    /\ UNCHANGED <<pivAddress, pivData, pivWritten, adamVars, threadVars>>

NextPiv == PivSendStep \/ PivLoopback
SpecPiv == InitPiv /\ [][NextPiv]_vars

\* C1: feeding the bytes Piv.send(address, payload) wrote back as the incoming
\* stream, Piv.receive(address) returns exactly the original payload.
C1_RoundTrip ==
    pivPc = "received" => pivResult = [kind |-> "return", value |-> pivData]

\* C13: the bytes Piv.send writes start with 0xAA, end with 0xAB, hold no
\* other 0xAA or 0xAB, and every 0xAC in them is followed by 0, 1 or 2; hence
\* the first 0xAB written is the frame terminator.
C13_DelimiterSafe ==
    pivPc # "start" =>
        LET w == pivWritten
            n == Len(w)
        IN  /\ n >= 2
            /\ w[1] = cstart
            /\ w[n] = cstop
            /\ \A i \in 2..(n - 1) : w[i] # cstart /\ w[i] # cstop
            /\ \A i \in 1..n : w[i] = cshift => i < n /\ w[i + 1] \in {0, 1, 2}
            /\ Find(w, eol) = n - 1

\* a payload of reserved bytes has been sent
C13_ReservedSent ==
    /\ pivPc = "sent"
    /\ pivAddress = cstart
    /\ pivData = <<cstop, cshift>>
    /\ Len(pivWritten) > Len(pivData) + 4

\* C14: the body Piv.send builds before escaping (address, payload bytes,
\* checksum byte) has the XOR of all its bytes equal to 0, and the checksum
\* is a single byte in 0..255.
C14_ChecksumConsistent ==
    pivPc # "start" =>
        LET body == PivBody(pivAddress, pivData)
        IN  /\ pivWritten = <<cstart>> \o Escape(body, 1) \o <<cstop>>
            /\ Len(body) = Len(pivData) + 2
            /\ body[Len(body)] \in 0..255
            /\ calcControl(body) = 0

\* a body whose checksum is a reserved byte has been sent
C14_ReservedChecksum ==
    /\ pivPc = "sent"
    /\ pivData # <<>>
    /\ calcControl(<<pivAddress>> \o pivData) = cstart

(***************************************************************************)
(* SpecPivDecode: Piv.receive on any frame readline(timeout, eol) can      *)
(* return: a non-empty byte string without the STOP byte                   *)
(***************************************************************************)
\* bytes of an incoming frame: ordinary bytes, the escape offsets 0, 1, 2,
\* the largest offset that fits (85) and the first that does not (86),
\* START and SHIFT themselves, and 255
FrameBytes == {0, 1, 2, 85, 86, cstart, cshift, 255}
FrameAddresses == {0, 1, cstart}

InitPivDecode ==
    /\ pivAddress \in FrameAddresses
    /\ pivFrame \in SeqsUpTo(FrameBytes, MaxFrame) \ {<<>>}
    /\ pivData = <<>>
    /\ pivWritten = <<>>
    /\ pivResult = NoResult
    /\ pivPc = "frame"
    /\ AdamOff
    /\ RetryOff /\ LineOff /\ HistOff /\ LockOff /\ TransOff

\* Piv.receive(address) after readline returned pivFrame
PivReceiveStep ==
    /\ pivPc = "frame"
    /\ pivResult' = PivReceive(pivAddress, pivFrame)
    /\ pivPc' = "decoded"
    /\ UNCHANGED <<pivAddress, pivData, pivFrame, pivWritten, adamVars, threadVars>>

NextPivDecode == PivReceiveStep
SpecPivDecode == InitPivDecode /\ [][NextPivDecode]_vars

\* two consecutive SHIFT bytes somewhere in the frame
DoubleShift(f) == \E i \in 1..(Len(f) - 1) : f[i] = cshift /\ f[i + 1] = cshift

\* a SHIFT followed by a byte of the set S
ShiftBefore(f, S) ==
    \E i \in 1..(Len(f) - 1) : f[i] = cshift /\ f[i + 1] # cshift /\ f[i + 1] \in S

\* the bytes b for which b + 0xAA is a reserved byte, and those for which it
\* does not fit in one byte
ReconstructsReserved == {b \in 0..255 : b + cstart \in escapedSymbols}
Overflows == {b \in 0..255 : b + cstart > 255}

\* C11 as stated: Piv.receive raises BadPivPacket 'Invalid shift' for every
\* frame that contains two consecutive SHIFT bytes, and for every frame in
\* which a SHIFT is followed by a byte whose reconstructed value (byte +
\* 0xAA) is one of 0xAA, 0xAB, 0xAC or does not fit in one byte.
C11_AsStated ==
    (/\ pivPc = "decoded"
     /\ \/ DoubleShift(pivFrame)
        \/ ShiftBefore(pivFrame, ReconstructsReserved)
        \/ ShiftBefore(pivFrame, Overflows))
        => pivResult = BadPivPacket("Invalid shift")

\* C11 amended: Piv.receive raises BadPivPacket 'Invalid shift' for every
\* frame that contains two consecutive SHIFT bytes, and for every frame in
\* which a SHIFT is followed by a byte that is itself one of 0xAA, 0xAB,
\* 0xAC or whose reconstructed value (byte + 0xAA) does not fit in one byte,
\* and for no other frame: a SHIFT followed by 0, 1 or 2 reconstructs 0xAA,
\* 0xAB, 0xAC and is no error.
C11_InvalidShift ==
    pivPc = "decoded" =>
        (pivResult = BadPivPacket("Invalid shift")
            <=> \/ DoubleShift(pivFrame)
                \/ ShiftBefore(pivFrame, escapedSymbols)
                \/ ShiftBefore(pivFrame, Overflows))

\* a frame whose shifted byte does not fit in one byte has been rejected
C11_Rejected ==
    /\ pivPc = "decoded"
    /\ pivFrame = <<1, cshift, 86>>
    /\ pivResult = BadPivPacket("Invalid shift")

\* the bytes the loop of Piv.receive reconstructs from a frame
Reconstructed(f) == Unescape(f, 1, <<>>, FALSE)

\* C12: for a frame that unescapes without error, Piv.receive raises 'Bad
\* control sum' when the last reconstructed byte differs from the XOR of all
\* preceding reconstructed bytes; otherwise it raises 'Invalid address' when
\* the first reconstructed byte differs from the expected address; otherwise
\* it returns exactly the reconstructed bytes between the address byte and
\* the checksum byte.
C12_ChecksumAndAddress ==
    (/\ pivPc = "decoded"
     /\ Len(pivFrame) >= 2
     /\ Reconstructed(pivFrame).kind = "converted")
        => LET c == Reconstructed(pivFrame).val
               n == Len(c)
           IN  IF c[n] # calcControl(SubSeq(c, 1, n - 1))
               THEN pivResult = BadPivPacket("Bad control sum")
               ELSE IF c[1] # pivAddress
               THEN pivResult = BadPivPacket("Invalid address")
               ELSE pivResult = [kind |-> "return", value |-> SubSeq(c, 2, n - 1)]

\* C21: for every frame readline can return (non-empty, without STOP),
\* Piv.receive either returns a payload or raises BadPivPacket, and no other
\* kind of failure escapes; a frame of fewer than 2 bytes raises 'Piv packet
\* is too short'.
C21_ClosedErrorSet ==
    pivPc = "decoded" =>
        /\ pivResult.kind \in {"return", "BadPivPacket"}
        /\ Len(pivFrame) < 2 => pivResult = BadPivPacket("Piv packet is too short")

\* the offsets Piv.send writes after a SHIFT: b - cstart for a reserved b
EncoderOffsets == {b - cstart : b \in escapedSymbols}

\* C22: Piv.receive returns a payload only for frames in which every SHIFT
\* is followed by one of the offsets the encoder can produce (0, 1, 2); in
\* particular a frame that ends with a SHIFT is never accepted.
C22_CanonicalEscapes ==
    (pivPc = "decoded" /\ pivResult.kind = "return") =>
        \A i \in 1..Len(pivFrame) :
            pivFrame[i] = cshift =>
                i < Len(pivFrame) /\ pivFrame[i + 1] \in EncoderOffsets

(***************************************************************************)
(* SpecAdam: the reply validation of AdamModule.query and AdamModule.write *)
(***************************************************************************)
InitAdam ==
    /\ adamAddress \in AdamAddresses
    /\ adamArg \in AdamArgs
    /\ adamLine \in SeqsUpTo(AdamBytes, MaxReply) \ {<<>>}
    /\ adamResult = NoResult
    /\ adamPc = "ready"
    /\ PivOff
    /\ RetryOff /\ LineOff /\ HistOff /\ LockOff /\ TransOff

AdamQueryStep ==
    /\ adamPc = "ready"
    /\ adamResult' = AdamQuery(adamAddress, adamArg, adamLine)
    /\ adamPc' = "query"
    /\ UNCHANGED <<adamAddress, adamArg, adamLine, pivVars, threadVars>>

AdamWriteStep ==
    /\ adamPc = "ready"
    /\ adamResult' = AdamWrite(adamAddress, adamArg, adamLine)
    /\ adamPc' = "write"
    /\ UNCHANGED <<adamAddress, adamArg, adamLine, pivVars, threadVars>>

NextAdam == AdamQueryStep \/ AdamWriteStep
SpecAdam == InitAdam /\ [][NextAdam]_vars

AdamReplyOk == Len(adamLine) >= 3 /\ adamLine[1] = Bang
               /\ SubSeq(adamLine, 2, 3) = Hex2(adamAddress)

\* C8: AdamModule.query returns the reply bytes after the first three, decoded
\* as text, when the frame has length >= 3, starts with '!' and carries the
\* module's address in bytes 2..3; for every other frame it raises BadReply
\* carrying the original request and the raw reply.  (Where a byte string is
\* not valid UTF-8 the claim is read as saying nothing about its text.)
C8_QueryValidation ==
    adamPc = "query" =>
        IF AdamReplyOk
        THEN Utf8Valid(SliceFrom(adamLine, 3)) =>
                adamResult = [kind |-> "return", value |-> SliceFrom(adamLine, 3)]
        ELSE /\ adamResult.kind = "BadReply"
             /\ adamResult.request = <<Dollar>> \o Hex2(adamAddress) \o adamArg
             /\ Utf8Valid(adamLine) => adamResult.reply = adamLine

\* C9: AdamModule.write returns (no payload) when the frame is exactly '>', or
\* '!' + address, or '!' + address + the data sent; it raises BadReply when
\* '!' is followed by another address or by trailing bytes other than the data.
C9_WriteSuccessSet ==
    adamPc = "write" =>
        LET address == Hex2(adamAddress)
        IN  /\ adamLine \in {<<Gt>>, <<Bang>> \o address, <<Bang>> \o address \o adamArg}
                => adamResult = [kind |-> "return", value |-> None]
            /\ (/\ Slice(adamLine, 0, 1) = <<Bang>>
                /\ \/ Slice(adamLine, 1, 3) # address
                   \/ Len(adamLine) > 3 /\ SliceFrom(adamLine, 3) # adamArg)
                => adamResult.kind = "BadReply"

\* C10: AdamModule.write raises the 'malformed write request' error when the
\* reply starts with '?', and raises 'unknown reply type' exactly when the
\* reply is none of: the bare '>', a reply starting with '!', a reply starting
\* with '?'.
C10_WriteErrorClasses ==
    adamPc = "write" =>
        /\ Slice(adamLine, 0, 1) = <<Quest>>
            => /\ adamResult.kind = "BadReply"
               /\ adamResult.expected = " malformed write request"
        /\ (adamResult.kind = "BadReply" /\ adamResult.expected = " unknown reply type")
            <=> ~ \/ adamLine = <<Gt>>
                  \/ Slice(adamLine, 0, 1) = <<Bang>>
                  \/ Slice(adamLine, 0, 1) = <<Quest>>

(***************************************************************************)
(* line.py: tryUntilTimeout.  The clock is read by datetime.now(); between *)
(* two readings it may advance by any number of ticks, or not at all.      *)
(***************************************************************************)
Tick ==
    /\ now < MaxTime
    /\ now' = now + 1
    /\ UNCHANGED <<pc, until, timeout, rv, passed, lineVars, histVars, lockVars, transVars, pureVars>>

\* until = datetime.now() + timeout
Deadline(clock, t) == clock + t

\* a remaining time that is not diminished by the time that has gone by
RemainingNotDiminished(deadline, clock) == deadline

\* timeout = until - datetime.now()
Remaining(deadline, clock) == deadline - clock

\* a test that never ends the loop
ExpiredNever(t) == FALSE

\* if timeout < timedelta(0): return rv
Expired(t) == t < 0

\* what an arbitrary action may return: None, an empty or a non-empty value
ActionResults == {None, <<>>, <<LetterA>>}

\* tryUntilTimeout(action, timeout) is entered: line 24
RetryCall(t) ==
    /\ pc[t] = "idle"
    /\ passed[t] = <<>>
    /\ \E limit \in -1..MaxTimeout :
        /\ timeout' = [timeout EXCEPT ![t] = limit]
        /\ until' = [until EXCEPT ![t] = Deadline(now, limit)]
    /\ pc' = [pc EXCEPT ![t] = "action"]
    /\ UNCHANGED <<now, rv, passed, lineVars, histVars, lockVars, transVars, pureVars>>

\* rv = action(timeout); if rv: return rv     (lines 26-28)
RetryAction(t) ==
    /\ pc[t] = "action"
    /\ Len(passed[t]) < MaxCalls
    /\ \E r \in ActionResults :
        /\ rv' = [rv EXCEPT ![t] = r]
        /\ pc' = [pc EXCEPT ![t] = IF Truthy(r) THEN "returned" ELSE "check"]
    /\ passed' = [passed EXCEPT ![t] = Append(@, timeout[t])]
    /\ UNCHANGED <<now, until, timeout, lineVars, histVars, lockVars, transVars, pureVars>>

\* timeout = until - datetime.now(); if timeout < timedelta(0): return rv
\* (lines 29-31), else the loop invokes the action again
CheckDeadline(t) ==
    /\ pc[t] = "check"
    /\ LET left == Remaining(until[t], now)
       IN  /\ timeout' = [timeout EXCEPT ![t] = left]
           /\ pc' = [pc EXCEPT ![t] = IF Expired(left) THEN "returned" ELSE "action"]
    /\ UNCHANGED <<now, until, rv, passed, lineVars, histVars, lockVars, transVars, pureVars>>

InitRetry == PivOff /\ AdamOff /\ RetryOff /\ LineOff /\ HistOff /\ LockOff /\ TransOff

NextRetry ==
    \/ RetryCall(Main)
    \/ RetryAction(Main)
    \/ CheckDeadline(Main)
    \/ Tick

SpecRetry == InitRetry /\ [][NextRetry]_vars

\* C7: tryUntilTimeout invokes the action at least once, and with a timeout
\* of zero (first remaining time non-positive) and an action that returns a
\* false value it invokes the action exactly once before it returns.
C7_AtLeastOnce ==
    pc[Main] = "returned" =>
        /\ Len(passed[Main]) >= 1
        /\ (passed[Main][1] <= 0 /\ ~Truthy(rv[Main])) => Len(passed[Main]) = 1

\* the timeouts the action was invoked with after the first invocation are
\* never negative and never larger than the one before
C19_Diminishing ==
    \A k \in 2..Len(passed[Main]) :
        passed[Main][k] >= 0 /\ passed[Main][k] <= passed[Main][k - 1]

\* the steps of tryUntilTimeout: the deadline is set at entry only, from
\* now + timeout; a true result is returned at once; after a false result
\* the remaining time is deadline - now, a negative one returns the same
\* result and any other one is passed to the next invocation
C19_Steps ==
    /\ until'[Main] # until[Main] =>
            /\ pc[Main] = "idle"
            /\ until'[Main] = now + timeout'[Main]
    /\ (pc[Main] = "action" /\ pc'[Main] # "action") =>
            /\ passed'[Main] = Append(passed[Main], timeout[Main])
            /\ pc'[Main] = IF Truthy(rv'[Main]) THEN "returned" ELSE "check"
    /\ (pc[Main] = "check" /\ pc'[Main] # "check") =>
            /\ rv'[Main] = rv[Main]
            /\ timeout'[Main] = until[Main] - now
            /\ pc'[Main] = IF timeout'[Main] < 0 THEN "returned" ELSE "action"

\* C19: tryUntilTimeout computes the deadline once at entry; it returns the
\* action's result the first time it is true; otherwise after each
\* invocation it recomputes remaining = deadline - now, returns the last
\* (false) result as soon as remaining is negative, and else invokes the
\* action again with that remaining value, which is never negative and
\* never larger than the value passed to the previous invocation.
C19_StopRule == []C19_Diminishing /\ [][C19_Steps]_vars

\* three invocations with diminishing timeouts, then the false result is
\* returned after the deadline
C19_RetriedUntilDeadline ==
    /\ pc[Main] = "returned"
    /\ ~Truthy(rv[Main])
    /\ Len(passed[Main]) = 3
    /\ passed[Main][3] < passed[Main][2]
    /\ passed[Main][2] < passed[Main][1]
    /\ now > until[Main]

(***************************************************************************)
(* line.py: Line.readline over a raw byte source.  Bytes arrive at the     *)
(* port in chunks of any size; readWithTimeout moves what has arrived into *)
(* the buffer, or nothing when nothing has (timeout, EAGAIN).              *)
(***************************************************************************)
RecvSize == 4092

\* readWithTimeout: SerialLine reads all of inWaiting(), SocketLine receives
\* at most RecvSize bytes; with nothing waiting both append nothing
readWithTimeout(w) == Slice(w, 0, RecvSize)

StreamBytes == {LetterA, LetterA + 1, CR}

\* one more byte arrives at the port
Arrive ==
    /\ Len(stream) < MaxStream
    /\ \E b \in StreamBytes :
        /\ wire' = Append(wire, b)
        /\ stream' = Append(stream, b)
    /\ UNCHANGED <<buffer, delim, frames, bufAtCall, rcvAtCall, retryVars, lockVars, transVars, pureVars>>

\* readline(timeout, delimiter) is called: tryUntilTimeout(tryReadLine, timeout)
ReadlineCall(t) ==
    /\ pc[t] = "idle"
    /\ Len(frames) < MaxReads
    /\ \E limit \in 0..MaxTimeout :
        /\ timeout' = [timeout EXCEPT ![t] = limit]
        /\ until' = [until EXCEPT ![t] = Deadline(now, limit)]
    /\ delim' = [delim EXCEPT ![t] = <<CR>>]
    /\ pc' = [pc EXCEPT ![t] = "action"]
    /\ bufAtCall' = buffer
    /\ rcvAtCall' = Len(stream) - Len(wire)
    /\ UNCHANGED <<now, rv, passed, buffer, wire, stream, frames, lockVars, transVars, pureVars>>

\* rv = tryReadLine(timeout); if rv: return rv     (line.py 26-28, 71-83)
TryReadLine(t) ==
    /\ pc[t] = "action"
    /\ \E chunk \in {readWithTimeout(wire)} :
       \E r \in {tryReadLine(buffer, chunk, delim[t])} :
           /\ buffer' = r.buffer
           /\ wire' = IF r.recv THEN SliceFrom(wire, Len(chunk)) ELSE wire
           /\ rv' = [rv EXCEPT ![t] = r.line]
           /\ pc' = [pc EXCEPT ![t] = IF Truthy(r.line) THEN "returned" ELSE "check"]
    /\ UNCHANGED <<now, until, timeout, passed, delim, histVars, lockVars, transVars, pureVars>>

Timeout(data) == [kind |-> "Timeout", data |-> data]

\* what readline does with the result of tryUntilTimeout: lines 85-87
ReadlineResult(line, buf) ==
    IF ~Truthy(line) THEN Timeout(buf) ELSE [kind |-> "return", value |-> line]

\* readline returns the frame or raises Timeout
ReadlineReturn(t) ==
    /\ pc[t] = "returned"
    /\ frames' = Append(frames, ReadlineResult(rv[t], buffer))
    /\ pc' = [pc EXCEPT ![t] = "idle"]
    /\ UNCHANGED <<now, until, timeout, rv, passed, lineVars, stream, bufAtCall,
                   rcvAtCall, lockVars, transVars, pureVars>>

InitReadline == PivOff /\ AdamOff /\ RetryOff /\ LineOff /\ HistOff /\ LockOff /\ TransOff

NextReadline ==
    \/ ReadlineCall(Main)
    \/ TryReadLine(Main)
    \/ CheckDeadline(Main)
    \/ ReadlineReturn(Main)
    \/ Arrive
    \/ Tick

SpecReadline == InitReadline /\ [][NextReadline]_vars

RECURSIVE SplitFrames(_, _)
\* the frames of s that a delimiter ends, in order
SplitFrames(s, delimiter) ==
    LET pos == Find(s, delimiter)
    IN  IF pos < 0 THEN <<>>
        ELSE <<Slice(s, 0, pos)>> \o SplitFrames(SliceFrom(s, pos + Len(delimiter)), delimiter)

RECURSIVE Returned(_)
\* the frames that the finished readline calls returned, in order
Returned(outcomes) ==
    IF outcomes = <<>> THEN <<>>
    ELSE IF Head(outcomes).kind = "return"
         THEN <<Head(outcomes).value>> \o Returned(Tail(outcomes))
         ELSE Returned(Tail(outcomes))

RECURSIVE Consumed(_)
\* the number of stream bytes the returned frames and their delimiters take
Consumed(fs) == IF fs = <<>> THEN 0 ELSE Len(Head(fs)) + 1 + Consumed(Tail(fs))

\* the bytes the port has handed over so far
Received == SubSeq(stream, 1, Len(stream) - Len(wire))

\* C5: successive readline calls return the delimiter-separated frames of the
\* stream in arrival order, without the delimiter; a readline that raises
\* Timeout leaves the undelimited bytes received so far in the buffer, where
\* a later readline finds them.
C5_FramesInOrder ==
    LET returned == Returned(frames)
        expected == SplitFrames(stream, <<CR>>)
    IN  /\ Len(returned) <= Len(expected)
        /\ returned = SubSeq(expected, 1, Len(returned))
        /\ (pc[Main] = "idle" /\ frames # <<>> /\ frames[Len(frames)].kind = "Timeout")
            => /\ Consumed(returned) <= Len(Received)
               /\ buffer = SubSeq(Received, Consumed(returned) + 1, Len(Received))
               /\ Find(buffer, <<CR>>) < 0

\* C6: readline raises Timeout only if its buffer never held a delimiter:
\* whenever the buffer at call time plus the bytes received during the call
\* contain a delimiter, readline returns the bytes before the first delimiter,
\* whatever their number, and removes them and the delimiter from the buffer.
C6_TimeoutOnlyWithoutDelimiter ==
    pc[Main] = "returned" =>
        LET seen == bufAtCall \o SubSeq(stream, rcvAtCall + 1, Len(stream) - Len(wire))
            pos == Find(seen, delim[Main])
            outcome == ReadlineResult(rv[Main], buffer)
        IN  IF pos >= 0
            THEN /\ outcome = [kind |-> "return", value |-> Slice(seen, 0, pos)]
                 /\ buffer = SliceFrom(seen, pos + 1)
            ELSE outcome.kind = "Timeout"

RECURSIVE Delimited(_, _)
\* the frames, each followed by the delimiter, one after the other
Delimited(fs, delimiter) ==
    IF fs = <<>> THEN <<>>
    ELSE Head(fs) \o delimiter \o Delimited(Tail(fs), delimiter)

\* C20: between readline calls, the frames returned so far, each followed by
\* the delimiter, followed by the buffer, are the bytes the raw receives
\* appended: readline drops, duplicates and reorders nothing, also when it
\* raises Timeout.
C20_ByteConservation ==
    pc[Main] = "idle" =>
        Delimited(Returned(frames), <<CR>>) \o buffer = Received

(***************************************************************************)
(* SpecSocket: Line.readline over SocketLine.readWithTimeout.  With data   *)
(* waiting, recv returns it; with none, recv raises socket.timeout, or     *)
(* socket.error with errno EAGAIN or with another errno.                   *)
(***************************************************************************)
\* from errno import EAGAIN
EAGAIN == 11

SocketTimeout == [kind |-> "socket.timeout", errno |-> 0]
SocketError(errno) == [kind |-> "socket.error", errno |-> errno]

\* what socket.recv raises when it has no data to return
RecvErrors == {SocketTimeout, SocketError(EAGAIN), SocketError(EAGAIN + 1)}
Transient == {SocketTimeout, SocketError(EAGAIN)}

\* the names the module binds at top level (lines 1-3 and the def / class
\* statements), and the names the body of class SocketLine binds (line 112
\* and its methods)
ModuleNames == {"datetime", "timedelta", "EAGAIN", "Lock", "total_seconds",
                "Timeout", "tryUntilTimeout", "tohex", "PersistentSocket",
                "Line", "SerialLine", "SocketLine", "DebugLine"}
ClassBodyNames == {"socket_error", "socket_timeout", "create_connection",
                   "__init__", "readWithTimeout", "write"}

\* the names a method body resolves besides its locals: the module's
\* globals; the names bound in the class body are attributes of the class
MethodSees == ModuleNames

\* the except clauses of SocketLine.readWithTimeout for an exception e of
\* recv (lines 128-133): NoResult when the method returns normally, else the
\* exception that leaves it
SocketExcept(e) ==
    IF "socket_timeout" \notin MethodSees
    THEN [kind |-> "NameError", errno |-> 0]
    ELSE IF e.kind = "socket.timeout" THEN NoResult
    ELSE IF "socket_error" \notin MethodSees
    THEN [kind |-> "NameError", errno |-> 0]
    ELSE IF e.errno = EAGAIN THEN NoResult
    ELSE e

\* tryReadLine(timeout) where the buffer holds a frame or recv returns data
SocketRecvData(t) ==
    /\ Truthy(processBuf(buffer, delim[t]).line) \/ wire # <<>>
    /\ TryReadLine(t)

\* tryReadLine(timeout) where the buffer holds no frame and recv raises
SocketRecvFails(t) ==
    /\ pc[t] = "action"
    /\ LET first == processBuf(buffer, delim[t])
       IN  /\ ~Truthy(first.line)
           /\ wire = <<>>
           /\ \E e \in RecvErrors :
                LET x == SocketExcept(e)
                    second == processBuf(first.buffer, delim[t])
                IN  IF x = NoResult
                    THEN /\ buffer' = second.buffer
                         /\ rv' = [rv EXCEPT ![t] = second.line]
                         /\ pc' = [pc EXCEPT ![t] = "check"]
                         /\ exc' = [exc EXCEPT ![t] = [raised |-> NoResult, cause |-> e]]
                    ELSE /\ buffer' = first.buffer
                         /\ rv' = rv
                         /\ pc' = [pc EXCEPT ![t] = "raised"]
                         /\ exc' = [exc EXCEPT ![t] = [raised |-> x, cause |-> e]]
    /\ UNCHANGED <<now, until, timeout, passed, wire, delim, histVars, lockVars,
                   debugLock, via, pureVars>>

\* the exception leaves tryUntilTimeout and readline
ReadlineRaise(t) ==
    /\ pc[t] = "raised"
    /\ frames' = Append(frames, exc[t].raised)
    /\ pc' = [pc EXCEPT ![t] = "idle"]
    /\ exc' = [exc EXCEPT ![t] = NoExc]
    /\ UNCHANGED <<now, until, timeout, rv, passed, lineVars, stream, bufAtCall,
                   rcvAtCall, lockVars, debugLock, via, pureVars>>

InitSocket == PivOff /\ AdamOff /\ RetryOff /\ LineOff /\ HistOff /\ LockOff /\ TransOff

NextSocket ==
    \/ ReadlineCall(Main)
    \/ SocketRecvData(Main)
    \/ SocketRecvFails(Main)
    \/ CheckDeadline(Main)
    \/ ReadlineReturn(Main)
    \/ ReadlineRaise(Main)
    \/ Arrive
    \/ Tick

SpecSocket == InitSocket /\ [][NextSocket]_vars

\* C16: in SocketLine.readWithTimeout a receive that times out or reports
\* EAGAIN returns normally with the buffer unchanged, so that readline keeps
\* polling and ends in Timeout only when its deadline has passed; any other
\* socket error propagates to the caller unchanged.
C16_TransientConditions ==
    /\ pc[Main] = "raised" =>
            /\ exc[Main].cause \notin Transient
            /\ exc[Main].raised = exc[Main].cause
    /\ (pc[Main] = "check" /\ exc[Main].cause \in Transient) =>
            /\ exc[Main].raised = NoResult
            /\ ~Truthy(rv[Main])
    /\ (pc[Main] = "returned" /\ ~Truthy(rv[Main])) => now > until[Main]
    /\ \A i \in 1..Len(frames) :
            frames[i].kind \in {"return", "Timeout", "socket.error"}

(***************************************************************************)
(* Spec: threads running AdamModule.query, AdamModule.write and Piv.query  *)
(* on clients that share one Line, and the device at the other end of the *)
(* bus.  The device answers the requests in the order they were written;   *)
(* it may answer after the client's deadline.                              *)
(***************************************************************************)
\* timedelta(seconds=1) of AdamModule.__init__ and Piv.__init__, in ticks
AdamTimeout == 1
PivTimeout == 1

\* the address of the module the clients talk to
ModuleAddress == 1

Ops == {"AdamModule.query", "AdamModule.write", "Piv.query"}

\* the clients that can be built on the transport: Piv.__init__ asserts
\* isinstance(line, Line), and DebugLine is no subclass of Line
ClientOps(w) == IF w = 0 THEN Ops ELSE Ops \ {"Piv.query"}

\* the command (data, payload) of the next call of thread t: no two calls of
\* a behaviour send the same one, so a reply names the request it answers
NextArg(t, n) == <<LetterA + MaxExchanges * (t - 1) + n>>

\* the bytes the call hands to Line.write
Request(o, a) ==
    IF o = "AdamModule.query" THEN <<Dollar>> \o Hex2(ModuleAddress) \o a \o <<CR>>
    ELSE IF o = "AdamModule.write" THEN <<Hash>> \o Hex2(ModuleAddress) \o a \o <<CR>>
    ELSE PivSend(ModuleAddress, a)

\* the frames the device may send in answer to a request frame (spec section
\* 6): a query is answered by '!' + address + payload, where the payload
\* repeats the command; a write by '>', by '!' + address + data or by '?';
\* a binary frame by a binary frame carrying the same address and payload
Replies(req) ==
    IF req[1] = Dollar
    THEN {<<Bang>> \o SubSeq(req, 2, Len(req))}
    ELSE IF req[1] = Hash
    THEN {<<Gt, CR>>, <<Bang>> \o SubSeq(req, 2, Len(req)), <<Quest, CR>>}
    ELSE {req}

\* an acquire() that does not wait for the lock
CanAcquireNoWait(l) == TRUE

\* Lock.acquire() returns only while the lock is unlocked
CanAcquire(l) == l = 0

\* a release() placed after the body instead of in a finally clause
FinallyOnReturnOnly(l, raised) == IF raised THEN l ELSE 0

\* the finally clause: lock.release(), whether or not the body raised
Finally(l, raised) == 0

RECURSIVE SumDone(_)
SumDone(S) == IF S = {} THEN 0
              ELSE LET t == CHOOSE x \in S : TRUE IN done[t] + SumDone(S \ {t})

\* the number of client calls started so far, by all threads
Started == SumDone(Threads) + Cardinality({t \in Threads : pc[t] # "idle"})

\* a client call starts: the request is built (adam.py 46-48, 67-69)
Call(t) ==
    /\ pc[t] = "idle"
    /\ Started < MaxExchanges
    /\ \E o \in ClientOps(via[t]) : op' = [op EXCEPT ![t] = o]
    /\ arg' = [arg EXCEPT ![t] = NextArg(t, done[t])]
    /\ pc' = [pc EXCEPT ![t] = "acquire"]
    /\ UNCHANGED <<now, until, timeout, rv, passed, lineVars, histVars,
                   lock, done, result, bus, transVars, pureVars>>

\* self.__line__.lock.acquire(): the lock attribute of the object the client
\* was built on, Line.lock (line.py 61) or DebugLine.lock (line.py 148)
Acquire(t) ==
    /\ pc[t] = "acquire"
    /\ IF via[t] = 0
       THEN /\ CanAcquire(lock)
            /\ lock' = t
            /\ UNCHANGED debugLock
       ELSE /\ CanAcquire(debugLock[via[t]])
            /\ debugLock' = [debugLock EXCEPT ![via[t]] = t]
            /\ UNCHANGED lock
    /\ pc' = [pc EXCEPT ![t] = "write"]
    /\ UNCHANGED <<now, until, timeout, rv, passed, lineVars, histVars,
                   op, arg, done, result, bus, via, exc, pureVars>>

\* self.__line__.write(request) succeeds and readline(self.timeout) is
\* entered: tryUntilTimeout computes until
Write(t) ==
    /\ pc[t] = "write"
    /\ bus' = Append(bus, Request(op[t], arg[t]))
    /\ LET own == IF op[t] = "Piv.query" THEN PivTimeout ELSE AdamTimeout
       IN  /\ timeout' = [timeout EXCEPT ![t] = own]
           /\ until' = [until EXCEPT ![t] = Deadline(now, own)]
    /\ delim' = [delim EXCEPT ![t] = IF op[t] = "Piv.query" THEN eol ELSE <<CR>>]
    /\ pc' = [pc EXCEPT ![t] = "action"]
    /\ UNCHANGED <<now, rv, passed, buffer, wire, histVars,
                   lock, op, arg, done, result, transVars, pureVars>>

\* self.__line__.write(request) raises (sendall fails): control goes to the
\* finally clause
WriteRaises(t) ==
    /\ pc[t] = "write"
    /\ pc' = [pc EXCEPT ![t] = "finally"]
    /\ UNCHANGED <<now, until, timeout, rv, passed, lineVars, histVars,
                   lockVars, transVars, pureVars>>

\* what the call returns or raises once the exchange is over
Outcome(o, a, raised, line, buf) ==
    IF raised THEN [kind |-> "socket_error"]
    ELSE IF ~Truthy(line) THEN Timeout(buf)
    ELSE IF o = "AdamModule.query" THEN AdamQuery(ModuleAddress, a, line)
    ELSE IF o = "AdamModule.write" THEN AdamWrite(ModuleAddress, a, line)
    ELSE PivReceive(ModuleAddress, line)

\* the exchange is over: the finally clause releases the lock and the call
\* returns or raises
Release(t) ==
    /\ pc[t] \in {"returned", "finally"}
    /\ LET raised == pc[t] = "finally" \/ ~Truthy(rv[t])
       IN  IF via[t] = 0
           THEN /\ lock' = Finally(lock, raised)
                /\ UNCHANGED debugLock
           ELSE /\ debugLock' = [debugLock EXCEPT ![via[t]] = Finally(@, raised)]
                /\ UNCHANGED lock
    /\ result' = [result EXCEPT ![t] =
                    [op |-> op[t], arg |-> arg[t],
                     outcome |-> Outcome(op[t], arg[t], pc[t] = "finally", rv[t], buffer)]]
    /\ done' = [done EXCEPT ![t] = @ + 1]
    /\ pc' = [pc EXCEPT ![t] = "idle"]
    /\ UNCHANGED <<now, until, timeout, rv, passed, lineVars, histVars,
                   op, arg, bus, via, exc, pureVars>>

\* the device answers the oldest request it has not answered yet
DeviceReply ==
    /\ bus # <<>>
    /\ \E reply \in Replies(Head(bus)) : wire' = wire \o reply
    /\ bus' = Tail(bus)
    /\ UNCHANGED <<buffer, delim, retryVars, histVars, lock, op, arg, done,
                   result, transVars, pureVars>>

Init == PivOff /\ AdamOff /\ RetryOff /\ LineOff /\ HistOff /\ LockOff /\ TransOff

Next ==
    \/ \E t \in Threads :
        \/ Call(t)
        \/ Acquire(t)
        \/ Write(t)
        \/ WriteRaises(t)
        \/ TryReadLine(t)
        \/ CheckDeadline(t)
        \/ Release(t)
    \/ DeviceReply
    \/ Tick

Spec == Init /\ [][Next]_vars

\* the thread is between the write of its request and the end of its read
InExchange(t) == pc[t] \in {"action", "check", "returned"}

\* the thread is between its acquire() and its release()
InGuard(t) == pc[t] \in {"write", "action", "check", "returned", "finally"}

\* C2: the lock is held from before the request is written until after the
\* reply read has finished, so no two exchanges are between their write and
\* the end of their read at the same time, and no thread is about to write
\* its request while another exchange is between its write and its read.
C2_MutualExclusion ==
    /\ \A t \in Threads : InGuard(t) => lock = t
    /\ \A t, u \in Threads :
        (t # u /\ InExchange(t)) => ~InExchange(u) /\ pc[u] # "write"

C2_Contention ==
    \E t, u \in Threads : InExchange(t) /\ pc[u] = "acquire" /\ bus # <<>>

\* C3: a query that returns a reply returns the reply the device sent for
\* its own request (the payload repeats the command), also when an earlier
\* exchange ended in Timeout.
C3_ReplyAttribution ==
    \A t \in Threads :
        (result[t].op \in {"AdamModule.query", "Piv.query"}
         /\ result[t].outcome.kind = "return")
            => result[t].outcome.value = result[t].arg

\* C4: when AdamModule.query, AdamModule.write or Piv.query has returned or
\* raised (Timeout, a validation error, an error of the transport's write),
\* its thread no longer holds the lock; the lock is released only by the
\* thread that acquired it, at the end of its exchange.
C4_LockFreeOutsideExchange ==
    \A t \in Threads : pc[t] \in {"idle", "acquire"} => lock # t

C4_ReleaseByHolder ==
    [][lock' # lock =>
        \/ lock = 0 /\ pc[lock'] = "acquire" /\ pc'[lock'] = "write"
        \/ lock # 0 /\ lock' = 0 /\ InGuard(lock) /\ pc'[lock] = "idle"]_vars

C4_GuardRelease == []C4_LockFreeOutsideExchange /\ C4_ReleaseByHolder

C4_AllExitPaths ==
    /\ lock = 0
    /\ \E t, u \in Threads :
        /\ pc[t] = "idle" /\ result[t].outcome.kind = "Timeout"
        /\ pc[u] = "idle" /\ result[u].outcome.kind = "socket_error"

(***************************************************************************)
(* SpecDebug: the same clients, where thread 1 built its client on a       *)
(* DebugLine around the Line and thread 2 on the Line itself, on the same  *)
(* DebugLine or on a second DebugLine around the same Line.  DebugLine     *)
(* forwards write and readline to the wrapped Line (line.py 149-155).      *)
(***************************************************************************)
InitDebug ==
    /\ PivOff /\ AdamOff /\ RetryOff /\ LineOff /\ HistOff /\ LockOff
    /\ debugLock = [w \in Wrappers |-> 0]
    /\ \E w \in {0} \cup Wrappers : via = [t \in Threads |-> IF t = Main THEN 1 ELSE w]
    /\ exc = [t \in Threads |-> NoExc]

SpecDebug == InitDebug /\ [][Next]_vars

\* C15: DebugLine introduces no locking of its own, so an exchange through a
\* DebugLine and an exchange directly on the wrapped Line, or through a
\* second DebugLine around the same Line, are serialized by the same guard
\* and never overlap on the bus.
C15_WrapperSharesGuard ==
    \A t \in Threads : InExchange(t) =>
        \A u \in Threads \ {t} : ~InExchange(u) /\ pc[u] # "write"

(***************************************************************************)
(* SpecEmit: the clients of Spec, where a thread may also run              *)
(* Kshd.freqEmit, which calls Piv.send outside Piv.query                   *)
(***************************************************************************)
\* the request of Kshd.freqEmit: b'\x10'
FreqEmitCommand == 16

\* Kshd.freqEmit(): self.__piv__.send(self.__address__, b'\x10'); Piv.send
\* builds the frame and calls Line.write, and acquires no lock
FreqEmit(t) ==
    /\ pc[t] = "idle"
    /\ Started < MaxExchanges
    /\ bus' = Append(bus, PivSend(ModuleAddress, <<FreqEmitCommand>>))
    /\ result' = [result EXCEPT ![t] =
                    [op |-> "Kshd.freqEmit", arg |-> <<FreqEmitCommand>>,
                     outcome |-> [kind |-> "return", value |-> None]]]
    /\ done' = [done EXCEPT ![t] = @ + 1]
    /\ UNCHANGED <<retryVars, lineVars, histVars, lock, op, arg, transVars, pureVars>>

NextEmit ==
    \/ \E t \in Threads :
        \/ Call(t)
        \/ Acquire(t)
        \/ Write(t)
        \/ WriteRaises(t)
        \/ TryReadLine(t)
        \/ CheckDeadline(t)
        \/ Release(t)
        \/ FreqEmit(t)
    \/ DeviceReply
    \/ Tick

SpecEmit == Init /\ [][NextEmit]_vars

\* thread t hands bytes to Line.write in this step
Wrote(t) == Len(bus') > Len(bus) /\ (pc'[t] # pc[t] \/ done'[t] # done[t])

\* C17: no bytes are written to a Line while another thread holds its lock
\* for an exchange in progress; a Piv.send outside Piv.query (Kshd.freqEmit)
\* never puts its bytes on the bus between another thread's request write
\* and its reply read.
C17_WriteAtomicity ==
    [][\A t \in Threads :
        Wrote(t) => /\ lock \in {0, t}
                    /\ \A u \in Threads \ {t} : ~InExchange(u)]_vars

(***************************************************************************)
(* SpecLive: the client calls of one thread under the scheduling the       *)
(* program runs with: the clock goes on advancing while a deadline is      *)
(* pending, a raw receive returns within the time it was given, and the    *)
(* thread takes its next step whenever it can.  A second thread adds only  *)
(* waiting in acquire(), which ends when the holder's call ends.           *)
(***************************************************************************)
\* some readline is still polling and its deadline has not passed
DeadlinePending == \E t \in Threads : pc[t] \in {"action", "check"} /\ now <= until[t]

\* datetime.now() advances; beyond MaxTime only as far as a pending
\* deadline needs
ClockAdvances ==
    /\ now < MaxTime \/ DeadlinePending
    /\ now' = now + 1
    /\ UNCHANGED <<pc, until, timeout, rv, passed, lineVars, histVars, lockVars,
                   transVars, pureVars>>

\* the next statement of thread t inside a call it has started
Step(t) ==
    \/ Acquire(t)
    \/ Write(t)
    \/ WriteRaises(t)
    \/ TryReadLine(t)
    \/ CheckDeadline(t)
    \/ Release(t)

NextLive ==
    \/ Call(Main)
    \/ Step(Main)
    \/ DeviceReply
    \/ ClockAdvances

Fairness == WF_vars(ClockAdvances) /\ WF_vars(Step(Main))

SpecLive == Init /\ [][NextLive]_vars /\ Fairness

\* C18: if the clock advances and every raw receive returns within the
\* remaining time passed to it, every readline eventually returns a frame or
\* ends in Timeout, and every AdamModule.query, AdamModule.write and
\* Piv.query eventually returns or raises: no exchange polls or holds the
\* lock forever.
C18_BoundedExchange ==
    /\ (pc[Main] \in {"action", "check"}) ~> (pc[Main] = "returned")
    /\ (pc[Main] # "idle") ~> (pc[Main] = "idle" /\ lock = 0)

\* the second exchange of the thread polled until its deadline had passed
\* and is about to end in Timeout
C18_PolledUntilDeadline ==
    /\ done[Main] >= 1
    /\ pc[Main] = "returned"
    /\ ~Truthy(rv[Main])
    /\ now > until[Main]
    /\ lock = Main

====
